---- MODULE Spec2Model ----
(***************************************************************************)
(* Model of 00-infrastructure/index.ts: a Pulumi program that reads its    *)
(* stack configuration, then declares (registers) a network, a cluster,    *)
(* identity bindings, a GitOps controller and a secret, one top-level       *)
(* statement after the other.  Every top-level statement is one action;    *)
(* the for loop has an initialisation, one action per iteration and an     *)
(* exit.  A declared resource is a record of its logical name, its type,   *)
(* the set of resources whose outputs its arguments use, and its           *)
(* arguments.                                                              *)
(*                                                                         *)
(* Optional values (a configuration key that may be missing, an array      *)
(* element that may be out of range) are sequences of length 0 or 1:       *)
(* <<>> is JavaScript's undefined, <<v>> is the value v.                    *)
(*                                                                         *)
(* The configuration key "pulumi-pat" is the record field pulumi_pat.      *)
(* Numeric options range over numbers (a value that is not a number makes  *)
(* getNumber throw and is not among the inputs); the two list options      *)
(* range over missing, a falsy JSON value, and arrays of distinct strings. *)
(***************************************************************************)
EXTENDS Integers, Sequences, FiniteSets, TLC

(* ---------------------------------------------------------------- bounds *)
\* longest configured list (availability zones, subnet CIDRs)
MaxLen == 3
\* largest configured node count
MaxNum == 3

(* ------------------------------------------------- input domains (Init) *)
None == <<>>
Some(v) == <<v>>

ZonePool == <<"eu-central-1a", "eu-central-1b", "eu-central-1c",
              "eu-west-1a", "eu-west-1b">>
CidrPool == <<"10.0.0.0/20", "10.0.16.0/20", "10.0.32.0/20",
              "10.0.48.0/20", "10.0.64.0/20">>

\* A JSON configuration value as requireObject returns it: an array, or a
\* falsy value (null, false, 0, "").
JsonArray(items) == [kind |-> "array", items |-> items]
JsonFalsy == [kind |-> "falsy", items |-> <<>>]

Prefixes(pool) == {SubSeq(pool, 1, n) : n \in 0..MaxLen}
OptNumbers == {None} \cup {Some(n) : n \in 0..MaxNum}
OptLists(pool) == {None, Some(JsonFalsy)} \cup {Some(JsonArray(s)) : s \in Prefixes(pool)}
OptInstanceTypes == {None, Some(""), Some("m5.large")}
OptCidrs == {None, Some("172.16.0.0/16")}
OptTokens == {None, Some(""), Some("pul-token")}

VARIABLES
    cfg,                  \* the stack configuration (pulumi.Config)
    pc,                   \* the statement about to run, "done" or "error"
    error,                \* the exception that ended the program, or ""
    minClusterSize, maxClusterSize, desiredClusterSize,
    eksNodeInstanceType, vpcNetworkCidr,
    publicSubnetCIDRs, availabilityZones,
    publicSubnetIDs, i,
    resources,            \* the resources declared so far, in order
    kubeconfig,           \* the exported stack output
    initialObjects, pulumipat,
    created               \* resources the engine has created

vars == <<cfg, pc, error, minClusterSize, maxClusterSize, desiredClusterSize,
          eksNodeInstanceType, vpcNetworkCidr, publicSubnetCIDRs,
          availabilityZones, publicSubnetIDs, i, resources, kubeconfig,
          initialObjects, pulumipat, created>>

(* ------------------------------------------------------ pure operators *)
\* config.get / config.getNumber: the value, or undefined when missing
ConfigGet(key) == cfg[key]

\* JavaScript  v || d  on an optional number: 0 and undefined are falsy
OrElseNumber(v, d) == IF v = None \/ v = Some(0) THEN d ELSE v[1]

\* JavaScript  v || d  on an optional string: "" and undefined are falsy
OrElseString(v, d) == IF v = None \/ v = Some("") THEN d ELSE v[1]

\* JavaScript  v || d  on a JSON value that requireObject returned
OrElseObject(v, d) == IF v.kind = "falsy" THEN d ELSE v.items

\* JavaScript  a[k]  with a 0-based index: undefined when out of range
At(a, k) == IF k + 1 \in DOMAIN a THEN Some(a[k + 1]) ELSE None

\* a reference to an output property of a declared resource
Output(res, attr) == [res |-> res, attr |-> attr]

\* a declared resource passed as an argument itself, no property of it read
ResourceObject(res) == [resource |-> res]

Resource(name, type, refs, args) ==
    [name |-> name, type |-> type, refs |-> refs, args |-> args]

SubnetName(k) == "eks-public-subnet-" \o ToString(k)
AssociationName(k) == "eks-rt-association-" \o ToString(k)

(* ------------------------------------------------- the statement order *)
\* the statement order with the pod-identity association moved before the role
StatementsAssociationBeforeRole ==
    << "minClusterSize", "maxClusterSize", "desiredClusterSize",
       "eksNodeInstanceType", "vpcNetworkCidr", "publicSubnetCIDRs",
       "availabilityZones", "eksVpc", "eksInternetGateway", "eksRouteTable",
       "publicSubnetIDs", "forInit", "for", "cluster", "podIdentityAddon",
       "accessEntry", "accessEntryPolicyClusterAdmin", "podIdentityAssociation",
       "ecrRole", "ecrPolicy", "ecrRolePolicy", "kubeconfig", "k8sProvider",
       "initialObjects", "argocd", "pulumipat", "originalSecret", "done" >>

Statements ==
    << "minClusterSize", "maxClusterSize", "desiredClusterSize",
       "eksNodeInstanceType", "vpcNetworkCidr", "publicSubnetCIDRs",
       "availabilityZones", "eksVpc", "eksInternetGateway", "eksRouteTable",
       "publicSubnetIDs", "forInit", "for", "cluster", "podIdentityAddon",
       "accessEntry", "accessEntryPolicyClusterAdmin", "ecrRole", "ecrPolicy",
       "ecrRolePolicy", "podIdentityAssociation", "kubeconfig", "k8sProvider",
       "initialObjects", "argocd", "pulumipat", "originalSecret", "done" >>

Succ(label) ==
    LET k == CHOOSE n \in DOMAIN Statements : Statements[n] = label
    IN  Statements[k + 1]

Init ==
    /\ cfg \in [minClusterSize : OptNumbers,
                maxClusterSize : OptNumbers,
                desiredClusterSize : OptNumbers,
                eksNodeInstanceType : OptInstanceTypes,
                vpcNetworkCidr : OptCidrs,
                publicSubnetCIDRs : OptLists(CidrPool),
                availabilityZones : OptLists(ZonePool),
                pulumi_pat : OptTokens]
    /\ pc = Statements[1]
    /\ error = ""
    /\ minClusterSize = 0 /\ maxClusterSize = 0 /\ desiredClusterSize = 0
    /\ eksNodeInstanceType = "" /\ vpcNetworkCidr = ""
    /\ publicSubnetCIDRs = <<>> /\ availabilityZones = <<>>
    /\ publicSubnetIDs = <<>> /\ i = 0
    /\ resources = <<>>
    /\ kubeconfig = None
    /\ initialObjects = "" /\ pulumipat = None
    /\ created = {}

(* ------------------------------------------- lines 9-24: configuration *)
Locals == <<minClusterSize, maxClusterSize, desiredClusterSize,
            eksNodeInstanceType, vpcNetworkCidr, publicSubnetCIDRs,
            availabilityZones, publicSubnetIDs, i, initialObjects, pulumipat>>

\* a statement that runs to completion and falls through to the next one
Step(label) == pc = label /\ pc' = Succ(label) /\ error' = error

\* a statement that throws: the program ends, nothing is caught
Throw(label, exception) == pc = label /\ pc' = "error" /\ error' = exception

MinClusterSizeValue == OrElseNumber(ConfigGet("minClusterSize"), 3)
\* the maximum defaulting below the default minimum
MaxClusterSizeValueSmallDefault == OrElseNumber(ConfigGet("maxClusterSize"), 2)
MaxClusterSizeValue == OrElseNumber(ConfigGet("maxClusterSize"), 6)
DesiredClusterSizeValue == OrElseNumber(ConfigGet("desiredClusterSize"), 3)
EksNodeInstanceTypeValue == OrElseString(ConfigGet("eksNodeInstanceType"), "t3.medium")
VpcNetworkCidrValue == OrElseString(ConfigGet("vpcNetworkCidr"), "10.0.0.0/16")

\* config.requireObject throws ConfigMissingError when the key is missing
RequireObjectThrows(key) == ConfigGet(key) = None
RequireObject(key) == ConfigGet(key)[1]

PublicSubnetCIDRsValue ==
    OrElseObject(RequireObject("publicSubnetCIDRs"), <<"10.0.0.0/20", "10.0.0.32/20">>)
AvailabilityZonesValue ==
    OrElseObject(RequireObject("availabilityZones"), <<"eu-central-1a", "eu-central-1b">>)

ReadMinClusterSize ==
    /\ Step("minClusterSize")
    /\ minClusterSize' = MinClusterSizeValue
    /\ UNCHANGED <<cfg, maxClusterSize, desiredClusterSize, eksNodeInstanceType,
                   vpcNetworkCidr, publicSubnetCIDRs, availabilityZones,
                   publicSubnetIDs, i, resources, kubeconfig, initialObjects,
                   pulumipat, created>>

ReadMaxClusterSize ==
    /\ Step("maxClusterSize")
    /\ maxClusterSize' = MaxClusterSizeValue
    /\ UNCHANGED <<cfg, minClusterSize, desiredClusterSize, eksNodeInstanceType,
                   vpcNetworkCidr, publicSubnetCIDRs, availabilityZones,
                   publicSubnetIDs, i, resources, kubeconfig, initialObjects,
                   pulumipat, created>>

ReadDesiredClusterSize ==
    /\ Step("desiredClusterSize")
    /\ desiredClusterSize' = DesiredClusterSizeValue
    /\ UNCHANGED <<cfg, minClusterSize, maxClusterSize, eksNodeInstanceType,
                   vpcNetworkCidr, publicSubnetCIDRs, availabilityZones,
                   publicSubnetIDs, i, resources, kubeconfig, initialObjects,
                   pulumipat, created>>

ReadEksNodeInstanceType ==
    /\ Step("eksNodeInstanceType")
    /\ eksNodeInstanceType' = EksNodeInstanceTypeValue
    /\ UNCHANGED <<cfg, minClusterSize, maxClusterSize, desiredClusterSize,
                   vpcNetworkCidr, publicSubnetCIDRs, availabilityZones,
                   publicSubnetIDs, i, resources, kubeconfig, initialObjects,
                   pulumipat, created>>

ReadVpcNetworkCidr ==
    /\ Step("vpcNetworkCidr")
    /\ vpcNetworkCidr' = VpcNetworkCidrValue
    /\ UNCHANGED <<cfg, minClusterSize, maxClusterSize, desiredClusterSize,
                   eksNodeInstanceType, publicSubnetCIDRs, availabilityZones,
                   publicSubnetIDs, i, resources, kubeconfig, initialObjects,
                   pulumipat, created>>

ReadPublicSubnetCIDRs ==
    /\ ~RequireObjectThrows("publicSubnetCIDRs")
    /\ Step("publicSubnetCIDRs")
    /\ publicSubnetCIDRs' = PublicSubnetCIDRsValue
    /\ UNCHANGED <<cfg, minClusterSize, maxClusterSize, desiredClusterSize,
                   eksNodeInstanceType, vpcNetworkCidr, availabilityZones,
                   publicSubnetIDs, i, resources, kubeconfig, initialObjects,
                   pulumipat, created>>

ThrowPublicSubnetCIDRs ==
    /\ RequireObjectThrows("publicSubnetCIDRs")
    /\ Throw("publicSubnetCIDRs", "ConfigMissingError: publicSubnetCIDRs")
    /\ UNCHANGED <<cfg, Locals, resources, kubeconfig, created>>

ReadAvailabilityZones ==
    /\ ~RequireObjectThrows("availabilityZones")
    /\ Step("availabilityZones")
    /\ availabilityZones' = AvailabilityZonesValue
    /\ UNCHANGED <<cfg, minClusterSize, maxClusterSize, desiredClusterSize,
                   eksNodeInstanceType, vpcNetworkCidr, publicSubnetCIDRs,
                   publicSubnetIDs, i, resources, kubeconfig, initialObjects,
                   pulumipat, created>>

ThrowAvailabilityZones ==
    /\ RequireObjectThrows("availabilityZones")
    /\ Throw("availabilityZones", "ConfigMissingError: availabilityZones")
    /\ UNCHANGED <<cfg, Locals, resources, kubeconfig, created>>

(* ------------------------------------------------ lines 26-66: network *)
\* new X(name, args): the resource is registered with the engine
Declare(r) ==
    /\ resources' = Append(resources, r)
    /\ UNCHANGED <<cfg, Locals, kubeconfig, created>>

EksVpcDecl ==
    Resource("eks-vpc", "aws:ec2:Vpc", {},
             [enableDnsHostnames |-> TRUE, cidrBlock |-> vpcNetworkCidr])

EksInternetGatewayDecl ==
    Resource("eks-igw", "aws:ec2:InternetGateway", {"eks-vpc"},
             [vpcId |-> Output("eks-vpc", "id")])

EksRouteTableDecl ==
    Resource("eks-rt", "aws:ec2:RouteTable", {"eks-vpc", "eks-igw"},
             [vpcId |-> Output("eks-vpc", "id"),
              routes |-> << [cidrBlock |-> "0.0.0.0/0",
                             gatewayId |-> Output("eks-igw", "id")] >>])

\* the subnet given a literal network id instead of the output of eks-vpc
PublicSubnetDeclLiteralVpc(k) ==
    Resource(SubnetName(k), "aws:ec2:Subnet", {},
             [vpcId |-> "vpc-0123456789abcdef0",
              mapPublicIpOnLaunch |-> FALSE,
              assignIpv6AddressOnCreation |-> FALSE,
              cidrBlock |-> At(publicSubnetCIDRs, k),
              availabilityZone |-> At(availabilityZones, k),
              tags |-> [Name |-> SubnetName(k)]])

PublicSubnetDecl(k) ==
    Resource(SubnetName(k), "aws:ec2:Subnet", {"eks-vpc"},
             [vpcId |-> Output("eks-vpc", "id"),
              mapPublicIpOnLaunch |-> FALSE,
              assignIpv6AddressOnCreation |-> FALSE,
              cidrBlock |-> At(publicSubnetCIDRs, k),
              availabilityZone |-> At(availabilityZones, k),
              tags |-> [Name |-> SubnetName(k)]])

RouteTableAssociationDecl(k) ==
    Resource(AssociationName(k), "aws:ec2:RouteTableAssociation",
             {SubnetName(k), "eks-rt"},
             [subnetId |-> Output(SubnetName(k), "id"),
              routeTableId |-> Output("eks-rt", "id")])

\* the loop condition stopping one zone short
ForConditionOffByOne == i < Len(availabilityZones) - 1

\* the loop condition  i < availabilityZones.length
ForCondition == i < Len(availabilityZones)

DeclareEksVpc ==
    /\ Step("eksVpc")
    /\ Declare(EksVpcDecl)

DeclareEksInternetGateway ==
    /\ Step("eksInternetGateway")
    /\ Declare(EksInternetGatewayDecl)

DeclareEksRouteTable ==
    /\ Step("eksRouteTable")
    /\ Declare(EksRouteTableDecl)

InitPublicSubnetIDs ==
    /\ Step("publicSubnetIDs")
    /\ publicSubnetIDs' = <<>>
    /\ UNCHANGED <<cfg, minClusterSize, maxClusterSize, desiredClusterSize,
                   eksNodeInstanceType, vpcNetworkCidr, publicSubnetCIDRs,
                   availabilityZones, i, resources, kubeconfig, initialObjects,
                   pulumipat, created>>

ForInit ==
    /\ Step("forInit")
    /\ i' = 0
    /\ UNCHANGED <<cfg, minClusterSize, maxClusterSize, desiredClusterSize,
                   eksNodeInstanceType, vpcNetworkCidr, publicSubnetCIDRs,
                   availabilityZones, publicSubnetIDs, resources, kubeconfig,
                   initialObjects, pulumipat, created>>

\* one iteration: the subnet, the push of its id, the association, i++
ForBody ==
    /\ pc = "for"
    /\ ForCondition
    /\ resources' = resources \o <<PublicSubnetDecl(i), RouteTableAssociationDecl(i)>>
    /\ publicSubnetIDs' = Append(publicSubnetIDs, Output(PublicSubnetDecl(i).name, "id"))
    /\ i' = i + 1
    /\ UNCHANGED <<cfg, pc, error, minClusterSize, maxClusterSize,
                   desiredClusterSize, eksNodeInstanceType, vpcNetworkCidr,
                   publicSubnetCIDRs, availabilityZones, kubeconfig,
                   initialObjects, pulumipat, created>>

ForExit ==
    /\ ~ForCondition
    /\ Step("for")
    /\ UNCHANGED <<cfg, Locals, resources, kubeconfig, created>>

(* ------------------------------------- lines 68-147: cluster, identity *)
AdminPrincipalArn ==
    "arn:aws:iam::052848974346:role/aws-reserved/sso.amazonaws.com/us-west-2/AWSReservedSSO_AdministratorAccess_5b5d58a7c435da2d"

\* the resources whose ids are in the list handed to the cluster
OutputsOf(ids) == {ids[k].res : k \in DOMAIN ids}

\* the cluster given only the first subnet
ClusterDeclFirstSubnetOnly ==
    LET first == IF publicSubnetIDs = <<>> THEN <<>> ELSE <<publicSubnetIDs[1]>>
    IN  Resource("eks-cluster", "eks:index:Cluster",
                 {"eks-vpc"} \cup OutputsOf(first),
                 [vpcId |-> Output("eks-vpc", "id"),
                  privateSubnetIds |-> first,
                  instanceType |-> eksNodeInstanceType,
                  desiredCapacity |-> desiredClusterSize,
                  minSize |-> minClusterSize,
                  maxSize |-> maxClusterSize,
                  endpointPrivateAccess |-> FALSE,
                  endpointPublicAccess |-> TRUE,
                  createOidcProvider |-> TRUE,
                  nodeRootVolumeSize |-> 150,
                  authenticationMode |-> "API"])

ClusterDecl ==
    Resource("eks-cluster", "eks:index:Cluster",
             {"eks-vpc"} \cup OutputsOf(publicSubnetIDs),
             [vpcId |-> Output("eks-vpc", "id"),
              privateSubnetIds |-> publicSubnetIDs,
              instanceType |-> eksNodeInstanceType,
              desiredCapacity |-> desiredClusterSize,
              minSize |-> minClusterSize,
              maxSize |-> maxClusterSize,
              endpointPrivateAccess |-> FALSE,
              endpointPublicAccess |-> TRUE,
              createOidcProvider |-> TRUE,
              nodeRootVolumeSize |-> 150,
              authenticationMode |-> "API"])

PodIdentityAddonDecl ==
    Resource("pod-identity", "aws:eks:Addon", {"eks-cluster"},
             [clusterName |-> Output("eks-cluster", "eksCluster.name"),
              addonName |-> "eks-pod-identity-agent",
              addonVersion |-> "v1.3.0-eksbuild.1",
              resolveConflictsOnCreate |-> "OVERWRITE",
              resolveConflictsOnUpdate |-> "OVERWRITE"])

AccessEntryDecl ==
    Resource("accessEntry", "aws:eks:AccessEntry", {"eks-cluster"},
             [clusterName |-> Output("eks-cluster", "eksCluster.name"),
              principalArn |-> AdminPrincipalArn])

AccessEntryPolicyClusterAdminDecl ==
    Resource("accessEntryPolicyClusterAdmin", "aws:eks:AccessPolicyAssociation",
             {"eks-cluster"},
             [accessScope |-> [type |-> "cluster"],
              clusterName |-> Output("eks-cluster", "eksCluster.name"),
              principalArn |-> AdminPrincipalArn,
              policyArn |-> "arn:aws:eks::aws:cluster-access-policy/AmazonEKSClusterAdminPolicy"])

\* the trust policy also letting any AWS principal assume the role
EcrRoleAssumeRolePolicyAnyPrincipal ==
    [Version |-> "2012-10-17",
     Statement |-> << [Action |-> <<"sts:AssumeRole", "sts:TagSession">>,
                       Effect |-> "Allow",
                       Principal |-> {<<"Service", "pods.eks.amazonaws.com">>,
                                      <<"AWS", "*">>}] >>]

\* the trust policy of the role: Principal is a set of <<kind, identifier>>
EcrRoleAssumeRolePolicy ==
    [Version |-> "2012-10-17",
     Statement |-> << [Action |-> <<"sts:AssumeRole", "sts:TagSession">>,
                       Effect |-> "Allow",
                       Principal |-> {<<"Service", "pods.eks.amazonaws.com">>}] >>]

EcrRoleDecl ==
    Resource("argocd-argocd-image-updater-role", "aws:iam:Role", {},
             [assumeRolePolicy |-> EcrRoleAssumeRolePolicy])

EcrPolicyDecl ==
    Resource("argocd-argocd-image-updater-policy", "aws:iam:Policy", {},
             [policy |-> [version |-> "2012-10-17",
                          statements |-> << [actions |-> <<"ecr:*">>,
                                             resources |-> <<"*">>,
                                             effect |-> "Allow"] >>]])

EcrRolePolicyDecl ==
    Resource("argocd-argocd-image-updater-policy-attachment",
             "aws:iam:RolePolicyAttachment",
             {"argocd-argocd-image-updater-role", "argocd-argocd-image-updater-policy"},
             [role |-> ResourceObject("argocd-argocd-image-updater-role"),
              policyArn |-> Output("argocd-argocd-image-updater-policy", "arn")])

PodIdentityAssociationDecl ==
    Resource("argocd-argocd-image-updater-pod-identity-association",
             "aws:eks:PodIdentityAssociation",
             {"eks-cluster", "argocd-argocd-image-updater-role"},
             [clusterName |-> Output("eks-cluster", "eksCluster.name"),
              roleArn |-> Output("argocd-argocd-image-updater-role", "arn"),
              namespace |-> "argocd",
              serviceAccount |-> "argocd-argocd-image-updater"])

DeclareCluster ==
    /\ Step("cluster")
    /\ Declare(ClusterDecl)

DeclarePodIdentityAddon ==
    /\ Step("podIdentityAddon")
    /\ Declare(PodIdentityAddonDecl)

DeclareAccessEntry ==
    /\ Step("accessEntry")
    /\ Declare(AccessEntryDecl)

DeclareAccessEntryPolicyClusterAdmin ==
    /\ Step("accessEntryPolicyClusterAdmin")
    /\ Declare(AccessEntryPolicyClusterAdminDecl)

DeclareEcrRole ==
    /\ Step("ecrRole")
    /\ Declare(EcrRoleDecl)

DeclareEcrPolicy ==
    /\ Step("ecrPolicy")
    /\ Declare(EcrPolicyDecl)

DeclareEcrRolePolicy ==
    /\ Step("ecrRolePolicy")
    /\ Declare(EcrRolePolicyDecl)

DeclarePodIdentityAssociation ==
    /\ Step("podIdentityAssociation")
    /\ Declare(PodIdentityAssociationDecl)

(* ------------------------- lines 149-183: output, controller, secret *)
K8sProviderDecl ==
    Resource("k8s", "pulumi:providers:kubernetes", {"eks-cluster"},
             [kubeconfig |-> Output("eks-cluster", "kubeconfigJson"),
              enableServerSideApply |-> TRUE])

ArgocdDecl ==
    Resource("argocd", "ArgoCD", {"k8s"},
             [initialObjects |-> initialObjects,
              providers |-> [kubernetes |-> "k8s"]])

\* the payload with the missing token rendered as text instead of ""
SecretStringDataUndefinedText(pat) ==
    [PULUMI_ACCESS_TOKEN |-> IF pat = None THEN "undefined" ELSE pat[1]]

\* the payload of the secret:  pulumipat || ""
SecretStringData(pat) == [PULUMI_ACCESS_TOKEN |-> OrElseString(pat, "")]

OriginalSecretDecl ==
    Resource("all-credentials", "kubernetes:core/v1:Secret", {"argocd", "k8s"},
             [metadata |-> [name |-> "pulumi-access-token",
                            namespace |-> Output("argocd", "namespace")],
              type |-> "Opaque",
              stringData |-> SecretStringData(pulumipat),
              provider |-> "k8s"])

ExportKubeconfig ==
    /\ Step("kubeconfig")
    /\ kubeconfig' = Some([secret |-> TRUE, value |-> Output("eks-cluster", "kubeconfig")])
    /\ UNCHANGED <<cfg, Locals, resources, created>>

DeclareK8sProvider ==
    /\ Step("k8sProvider")
    /\ Declare(K8sProviderDecl)

ReadInitialObjects ==
    /\ Step("initialObjects")
    /\ initialObjects' = "./argocd-initial-objects.yaml"
    /\ UNCHANGED <<cfg, minClusterSize, maxClusterSize, desiredClusterSize,
                   eksNodeInstanceType, vpcNetworkCidr, publicSubnetCIDRs,
                   availabilityZones, publicSubnetIDs, i, resources, kubeconfig,
                   pulumipat, created>>

DeclareArgocd ==
    /\ Step("argocd")
    /\ Declare(ArgocdDecl)

ReadPulumipat ==
    /\ Step("pulumipat")
    /\ pulumipat' = ConfigGet("pulumi_pat")
    /\ UNCHANGED <<cfg, minClusterSize, maxClusterSize, desiredClusterSize,
                   eksNodeInstanceType, vpcNetworkCidr, publicSubnetCIDRs,
                   availabilityZones, publicSubnetIDs, i, resources, kubeconfig,
                   initialObjects, created>>

DeclareOriginalSecret ==
    /\ Step("originalSecret")
    /\ Declare(OriginalSecretDecl)

(* ------------------------------------------------- the program alone *)
Program ==
    \/ ReadMinClusterSize \/ ReadMaxClusterSize \/ ReadDesiredClusterSize
    \/ ReadEksNodeInstanceType \/ ReadVpcNetworkCidr
    \/ ReadPublicSubnetCIDRs \/ ThrowPublicSubnetCIDRs
    \/ ReadAvailabilityZones \/ ThrowAvailabilityZones
    \/ DeclareEksVpc \/ DeclareEksInternetGateway \/ DeclareEksRouteTable
    \/ InitPublicSubnetIDs \/ ForInit \/ ForBody \/ ForExit
    \/ DeclareCluster \/ DeclarePodIdentityAddon \/ DeclareAccessEntry
    \/ DeclareAccessEntryPolicyClusterAdmin
    \/ DeclareEcrRole \/ DeclareEcrPolicy \/ DeclareEcrRolePolicy
    \/ DeclarePodIdentityAssociation
    \/ ExportKubeconfig \/ DeclareK8sProvider \/ ReadInitialObjects
    \/ DeclareArgocd \/ ReadPulumipat \/ DeclareOriginalSecret

Next == Program

Spec == Init /\ [][Next]_vars

(* --------------------------------------- the program under an engine *)
\* The engine that applies the declarations is not part of the program.
\* It may create a declared resource at any time once every resource the
\* declaration references has been created; independent resources are
\* created in any order.
Declared == {resources[k].name : k \in DOMAIN resources}

EngineCreate(k) ==
    /\ resources[k].name \notin created
    /\ resources[k].refs \subseteq created
    /\ created' = created \cup {resources[k].name}
    /\ UNCHANGED <<cfg, pc, error, Locals, resources, kubeconfig>>

\* the scalar options are left unset: they do not shape the graph
EngineInit ==
    /\ Init
    /\ cfg.minClusterSize = None /\ cfg.maxClusterSize = None
    /\ cfg.desiredClusterSize = None /\ cfg.eksNodeInstanceType = None
    /\ cfg.vpcNetworkCidr = None /\ cfg.pulumi_pat = None

EngineNext == Program \/ \E k \in DOMAIN resources : EngineCreate(k)

EngineSpec == EngineInit /\ [][EngineNext]_vars

(* ============================================================ claims *)
Pos(label) == CHOOSE n \in DOMAIN Statements : Statements[n] = label

\* the statement `label` has run to completion
Ran(label) == pc /= "error" /\ Pos(pc) > Pos(label)

OfType(type) == {k \in DOMAIN resources : resources[k].type = type}
Named(name) == {k \in DOMAIN resources : resources[k].name = name}

ZonesConfigured ==
    cfg.availabilityZones /= None /\ cfg.availabilityZones[1].kind = "array"
CidrsConfigured ==
    cfg.publicSubnetCIDRs /= None /\ cfg.publicSubnetCIDRs[1].kind = "array"
ConfiguredZones == cfg.availabilityZones[1].items
ConfiguredCidrs == cfg.publicSubnetCIDRs[1].items

\* C1: for a configured availability-zone list of length N, once the loop has
\* ended exactly N subnets eks-public-subnet-0 .. eks-public-subnet-(N-1) and
\* exactly N route-table associations are declared, association k binds
\* subnet k to eks-rt, and eks-rt is the only routing table.
C1_SubnetPerZone ==
    (ZonesConfigured /\ Ran("for")) =>
        LET N == Len(ConfiguredZones)
            subnets == OfType("aws:ec2:Subnet")
            assocs == OfType("aws:ec2:RouteTableAssociation")
        IN  /\ Cardinality(subnets) = N
            /\ Cardinality(assocs) = N
            /\ \A k \in 0..(N - 1) :
                  /\ Cardinality(Named(SubnetName(k)) \cap subnets) = 1
                  /\ Cardinality({a \in assocs :
                        /\ resources[a].name = AssociationName(k)
                        /\ resources[a].args.subnetId = Output(SubnetName(k), "id")
                        /\ resources[a].args.routeTableId = Output("eks-rt", "id")}) = 1
            /\ \A a \in assocs : resources[a].args.routeTableId.res = "eks-rt"
            /\ Cardinality(OfType("aws:ec2:RouteTable")) = 1
            /\ \A t \in OfType("aws:ec2:RouteTable") : resources[t].name = "eks-rt"

C1_Witness ==
    /\ ZonesConfigured /\ Len(ConfiguredZones) = 2
    /\ pc = "cluster"
    /\ Cardinality(OfType("aws:ec2:RouteTableAssociation")) = 2

\* C2 (as claimed): when the configured zone list and CIDR list differ in
\* length the program ends in an error: it never completes, it declares no
\* subnet without a CIDR, and it never runs past the loop leaving configured
\* CIDRs unused.
C2_MismatchIsError ==
    (ZonesConfigured /\ CidrsConfigured
        /\ Len(ConfiguredZones) /= Len(ConfiguredCidrs)) =>
        /\ pc /= "done"
        /\ \A k \in OfType("aws:ec2:Subnet") : resources[k].args.cidrBlock /= None
        /\ ~(Ran("for") /\ Len(ConfiguredCidrs) > Cardinality(OfType("aws:ec2:Subnet")))

\* the subnets declared so far, in declaration order
IsSubnet(r) == r.type = "aws:ec2:Subnet"
DeclaredSubnets == SelectSeq(resources, IsSubnet)
DeclaredSubnetIds ==
    [k \in DOMAIN DeclaredSubnets |-> Output(DeclaredSubnets[k].name, "id")]

\* C3: the subnet list of the cluster declaration is exactly the list of the
\* ids of the declared subnets, one per zone, in zone order.
C3_ClusterSubnets ==
    \A c \in OfType("eks:index:Cluster") :
        /\ resources[c].args.privateSubnetIds = DeclaredSubnetIds
        /\ Len(DeclaredSubnetIds) = Len(availabilityZones)
        /\ \A k \in DOMAIN DeclaredSubnets :
              /\ DeclaredSubnets[k].args.availabilityZone = Some(availabilityZones[k])
              /\ \A j \in DOMAIN DeclaredSubnets :
                    DeclaredSubnets[j].name = DeclaredSubnets[k].name => j = k

C3_Witness ==
    /\ OfType("eks:index:Cluster") /= {}
    /\ Len(DeclaredSubnetIds) = 2

\* C4: every reference of a declared resource is to a resource declared
\* before it; eks-vpc references nothing, nothing references all-credentials,
\* and the pod-identity association comes after the cluster and the role.
C4_DeclaredAfterDependencies ==
    /\ \A k \in DOMAIN resources : \A n \in resources[k].refs :
          \E j \in 1..(k - 1) : resources[j].name = n
    /\ \A k \in Named("eks-vpc") : resources[k].refs = {}
    /\ \A k \in DOMAIN resources : "all-credentials" \notin resources[k].refs
    /\ \A k \in OfType("aws:eks:PodIdentityAssociation") :
          /\ \E j \in 1..(k - 1) : resources[j].name = "eks-cluster"
          /\ \E j \in 1..(k - 1) : resources[j].name = "argocd-argocd-image-updater-role"
          /\ resources[k].refs = {"eks-cluster", "argocd-argocd-image-updater-role"}

C4_Witness ==
    /\ pc = "done"
    /\ OfType("aws:eks:PodIdentityAssociation") /= {}
    /\ Named("all-credentials") /= {}

CreatedOfType(type) ==
    {k \in DOMAIN resources : resources[k].type = type /\ resources[k].name \in created}

\* C5 (as claimed): no subnet is created before both the network and the
\* routing table exist.
C5_SubnetAfterVpcAndRouteTable ==
    \A k \in CreatedOfType("aws:ec2:Subnet") :
        "eks-vpc" \in created /\ "eks-rt" \in created

\* C5 (amended): no subnet is created before the network exists, and no
\* route-table association is created before its subnet and the routing
\* table exist.
C5_SubnetAfterVpc ==
    /\ \A k \in CreatedOfType("aws:ec2:Subnet") : "eks-vpc" \in created
    /\ \A k \in CreatedOfType("aws:ec2:RouteTableAssociation") :
          /\ resources[k].args.subnetId.res \in created
          /\ "eks-rt" \in created
          /\ "eks-vpc" \in created

C5_Witness ==
    /\ CreatedOfType("aws:ec2:Subnet") /= {}
    /\ CreatedOfType("aws:ec2:RouteTableAssociation") /= {}
    /\ Cardinality(OfType("aws:ec2:Subnet")) = 2

ListsPresent == cfg.publicSubnetCIDRs /= None /\ cfg.availabilityZones /= None

\* C6: at most one secret is ever declared and exactly one once the program
\* has ended normally; its payload has the field PULUMI_ACCESS_TOKEN, equal
\* to "" when the access token is not configured and to the configured value
\* otherwise; a missing access token does not make the program fail.
C6_SecretPayload ==
    LET secrets == OfType("kubernetes:core/v1:Secret")
    IN  /\ Cardinality(secrets) <= 1
        /\ pc = "done" => Cardinality(secrets) = 1
        /\ \A k \in secrets :
              /\ resources[k].name = "all-credentials"
              /\ DOMAIN resources[k].args.stringData = {"PULUMI_ACCESS_TOKEN"}
              /\ resources[k].args.stringData["PULUMI_ACCESS_TOKEN"] =
                    (IF cfg.pulumi_pat = None THEN "" ELSE cfg.pulumi_pat[1])
        /\ (cfg.pulumi_pat = None /\ ListsPresent) => pc /= "error"

C6_Witness ==
    /\ pc = "done"
    /\ cfg.pulumi_pat = None
    /\ \E k \in OfType("kubernetes:core/v1:Secret") :
          resources[k].args.stringData["PULUMI_ACCESS_TOKEN"] = ""

Configured(opt, default) == IF opt = None THEN default ELSE opt[1]

\* C7 (as claimed): each node count of the cluster declaration is the
\* configured number whenever one is configured, 0 included, and the default
\* 3 / 6 / 3 only when the option is not configured.
C7_ConfiguredNodeCounts ==
    \A c \in OfType("eks:index:Cluster") :
        /\ resources[c].args.minSize = Configured(cfg.minClusterSize, 3)
        /\ resources[c].args.maxSize = Configured(cfg.maxClusterSize, 6)
        /\ resources[c].args.desiredCapacity = Configured(cfg.desiredClusterSize, 3)

\* C8 (as claimed): a missing CIDR list or zone list is replaced by the
\* default and the program goes on without an error.
C8_MissingListUsesDefault ==
    /\ (cfg.publicSubnetCIDRs = None /\ (Ran("publicSubnetCIDRs") \/ pc = "error")) =>
          /\ pc /= "error"
          /\ publicSubnetCIDRs = <<"10.0.0.0/20", "10.0.0.32/20">>
    /\ (cfg.availabilityZones = None /\ (Ran("availabilityZones") \/ pc = "error")) =>
          /\ pc /= "error"
          /\ availabilityZones = <<"eu-central-1a", "eu-central-1b">>
          /\ Ran("for") => Cardinality(OfType("aws:ec2:Subnet")) = 2

\* C9 (as claimed): for every configuration of the node counts the cluster
\* declaration has minimum <= desired <= maximum.
C9_CapacityOrdered ==
    \A c \in OfType("eks:index:Cluster") :
        /\ resources[c].args.minSize <= resources[c].args.desiredCapacity
        /\ resources[c].args.desiredCapacity <= resources[c].args.maxSize

NoCountConfigured ==
    /\ cfg.minClusterSize = None /\ cfg.maxClusterSize = None
    /\ cfg.desiredClusterSize = None

OrderedCountsConfigured ==
    /\ cfg.minClusterSize /= None /\ cfg.maxClusterSize /= None
    /\ cfg.desiredClusterSize /= None
    /\ cfg.minClusterSize[1] /= 0 /\ cfg.maxClusterSize[1] /= 0
    /\ cfg.desiredClusterSize[1] /= 0
    /\ cfg.minClusterSize[1] <= cfg.desiredClusterSize[1]
    /\ cfg.desiredClusterSize[1] <= cfg.maxClusterSize[1]

\* C9 (amended): the cluster declaration has minimum <= desired <= maximum
\* when none of the three node counts is configured, and when all three are
\* configured to non-zero numbers that are themselves so ordered.
C9_CapacityOrderedWhenConfigOrdered ==
    (NoCountConfigured \/ OrderedCountsConfigured) => C9_CapacityOrdered

C9_Witness ==
    /\ NoCountConfigured
    /\ \E c \in OfType("eks:index:Cluster") :
          /\ resources[c].args.minSize = 3
          /\ resources[c].args.desiredCapacity = 3
          /\ resources[c].args.maxSize = 6

\* C10: the pod-identity association references the role
\* argocd-argocd-image-updater-role, and every Allow statement of that
\* role's trust policy names pods.eks.amazonaws.com as its only principal.
C10_TrustOnlyPodIdentity ==
    \A a \in OfType("aws:eks:PodIdentityAssociation") :
        /\ resources[a].args.roleArn = Output("argocd-argocd-image-updater-role", "arn")
        /\ Cardinality(Named("argocd-argocd-image-updater-role")) = 1
        /\ \A r \in Named("argocd-argocd-image-updater-role") :
              LET policy == resources[r].args.assumeRolePolicy
                  allows == {n \in DOMAIN policy.Statement :
                                policy.Statement[n].Effect = "Allow"}
              IN  /\ resources[r].type = "aws:iam:Role"
                  /\ allows /= {}
                  /\ \A n \in allows :
                        policy.Statement[n].Principal =
                            {<<"Service", "pods.eks.amazonaws.com">>}

C10_Witness ==
    /\ OfType("aws:eks:PodIdentityAssociation") /= {}
    /\ Named("argocd-argocd-image-updater-role") /= {}

====
